---- MODULE Spec2Model ----
(***************************************************************************)
(* Model of the request handlers of the portfolio site:                    *)
(*   - the newsletter verification loader                                  *)
(*     (app/routes/blog/realistic-button-design-css/post.mdx, l. 259-300), *)
(*   - the social preview image loader (app/routes/api/og/index.tsx),      *)
(*   - the robots.txt loader,                                              *)
(*   - the batch email script (emails/main.ts of the sitemap post).        *)
(* A request is a process; every await of a handler is a point where other *)
(* requests may run.  The contact store (resend.contacts) is shared by all *)
(* requests and is kept as a bag of emails.                                *)
(***************************************************************************)
EXTENDS Integers, Sequences, FiniteSets, TLC

\* ---------------------------------------------------------------- bounds
NumRequests == 2
MaxPad == 1
MaxRobotsRequests == 2
MaxFullBatches == 2

Requests == 1..NumRequests

\* ------------------------------------------------------- values and inputs
\* JavaScript null / undefined.
Null == "<null>"

Emails == {"ada@example.com", "bob@example.com"}

\* The token of a confirmation link, as produced by the signer for an email.
SignedToken(e) == "signed." \o e

\* searchParams.get("token"): absent, empty, forged, or signed for an email.
Tokens == {Null, "", "forged"} \cup {SignedToken(e) : e \in Emails}

\* JavaScript truthiness of a value that is a string, null or undefined.
Truthy(v) == v # Null /\ v # ""

\* href("/newsletter/confirmation")
href(path) == path

ConfirmationPath == href("/newsletter/confirmation")

\* What a loader hands back to the runtime.
Pending == [kind |-> "pending", value |-> ""]
redirect(location) == [kind |-> "redirect", value |-> location]
Throw(value) == [kind |-> "throw", value |-> value]

\* The exception a throwing verifySignedToken raises (whatever it is, it is
\* not one of the loader's string literals).
TokenException == "TokenException"

\* The exception a throwing resend.contacts call raises.
StoreException == "StoreException"

\* verifySignedToken(token) -> email | null: the email the token was signed
\* for, or no value.
verifySignedToken(token) ==
  IF \E e \in Emails : token = SignedToken(e)
  THEN CHOOSE e \in Emails : token = SignedToken(e)
  ELSE Null

\* Outcomes of one call of verifySignedToken: it returns, or it throws.
VerifyOutcomes(token) ==
  { [threw |-> FALSE, email |-> verifySignedToken(token)],
    [threw |-> TRUE, email |-> Null] }

VARIABLES
  store,        \* resend audience: email -> number of contacts with that email
  pc,           \* request -> "idle" | "get" | "create" | "done"
  token,        \* request -> the token parameter of its URL
  email,        \* request -> const email
  result,       \* request -> what the loader returned or threw
  console,      \* request -> sequence of console.error labels it wrote
  calls,        \* request -> sequence of <<operation, argument>> it issued
  heldAtGet,    \* request -> the store held the email when the lookup ran
  verifyResp,   \* request -> what its verifySignedToken call did
  getResp,      \* request -> the response its lookup received
  createResp,   \* request -> the response its creation received
  afterSuccess  \* request -> emails created successfully before it arrived

vvars == <<store, pc, token, email, result, console, calls, heldAtGet,
           verifyResp, getResp, createResp, afterSuccess>>

\* Placeholders of a request that has not received the answer yet.
NoVerify == [threw |-> FALSE, email |-> "<unverified>"]
NoGet == [threw |-> FALSE, data |-> Null, error |-> Null]
NoCreate == [threw |-> FALSE, created |-> FALSE, error |-> Null]

VInit ==
  /\ store \in [Emails -> {0, 1}]
  /\ pc = [r \in Requests |-> "idle"]
  /\ token = [r \in Requests |-> Null]
  /\ email = [r \in Requests |-> Null]
  /\ result = [r \in Requests |-> Pending]
  /\ console = [r \in Requests |-> <<>>]
  /\ calls = [r \in Requests |-> <<>>]
  /\ heldAtGet = [r \in Requests |-> FALSE]
  /\ verifyResp = [r \in Requests |-> NoVerify]
  /\ getResp = [r \in Requests |-> NoGet]
  /\ createResp = [r \in Requests |-> NoCreate]
  /\ afterSuccess = [r \in Requests |-> {}]

\* ------------------------------------------------------ image request state
\* Maximum lengths of the rendered title and description.
TitleMax == 70
DescriptionMax == 200

VARIABLES
  ogPc,               \* "idle" | "done"
  ogTitleParam,       \* searchParams.get("title")
  ogDescriptionParam, \* searchParams.get("description")
  ogResponse,         \* the Response the loader returned
  ogRendered,         \* sequence of the renderer's invocations
  ogConsole,          \* sequence of console.error entries <<label, error>>
  ogRenderError       \* the error the rendering of the image failed with

ogvars == <<ogPc, ogTitleParam, ogDescriptionParam, ogResponse, ogRendered,
            ogConsole, ogRenderError>>

\* ----------------------------------------------------- robots.txt state
VARIABLES
  vercelEnv,       \* process.env.VERCEL_ENV of the deployment
  robotsResponses  \* sequence of the responses of the robots.txt loader

robotsvars == <<vercelEnv, robotsResponses>>

\* --------------------------------------------- batch email script state
\* Postmark accepts up to 500 emails in one batch request.
MAX_BATCH_SIZE == 500

TEMPLATE_ID == 123456789

VARIABLES
  users,         \* the users still to be mailed (users.json, spliced)
  counter,       \* let counter
  bpc,           \* "loop" | "send" | "log" | "scan" | "exit"
  emails,        \* the emails of the batch being sent
  responses,     \* the responses of the batch being logged
  scanned,       \* how many responses the for loop has gone through
  sends,         \* the arguments of all sendEmailBatchWithTemplates calls
  returned,      \* all responses the batch sends returned
  logs,          \* the lines of logs.txt
  unsuccessful,  \* the lines of unsuccessful.txt
  initialUsers,  \* users.json as imported
  bconsole       \* console.error / console.info entries

batchvars == <<users, counter, bpc, emails, responses, scanned, sends,
               returned, logs, unsuccessful, initialUsers, bconsole>>

vars == <<vvars, ogvars, robotsvars, batchvars>>

\* n copies of the character c.
Rep(c, n) == [i \in 1..n |-> c]

\* Bodies of parameter values: letters, of a length around the maximum, or
\* with a blank as the last character the maximum leaves.
ParamBodies(max) ==
  { Rep("a", n) : n \in {0, 1, max - 1, max, max + 1} }
    \cup { Rep("a", max - 1) \o <<" ", "a">> }

\* Parameter values: a body with up to MaxPad blanks before and after it.
ParamStrings(max) ==
  { Rep(" ", i) \o b \o Rep(" ", j) :
      i \in 0..MaxPad, j \in 0..MaxPad, b \in ParamBodies(max) }

TitleParams == { [present |-> FALSE, value |-> <<>>] }
               \cup { [present |-> TRUE, value |-> s] :
                        s \in ParamStrings(TitleMax) }

DescriptionParams == { [present |-> FALSE, value |-> <<>>] }
                     \cup { [present |-> TRUE, value |-> s] :
                              s \in ParamStrings(DescriptionMax) }

OgInit ==
  /\ ogPc = "idle"
  /\ ogTitleParam = [present |-> FALSE, value |-> <<>>]
  /\ ogDescriptionParam = [present |-> FALSE, value |-> <<>>]
  /\ ogResponse = [status |-> 0, contentType |-> "", body |-> ""]
  /\ ogRendered = <<>>
  /\ ogConsole = <<>>
  /\ ogRenderError = Null

\* process.env.VERCEL_ENV: unset, or the name of an environment.
VercelEnvs == {Null, "", "production", "Production", "preview", "development"}

\* new URL(request.url).origin
Origins == {"https://yourdomain.com", "http://localhost:5173",
            "https://preview.example.app", "http://127.0.0.1:3000"}

RobotsInit ==
  /\ vercelEnv \in VercelEnvs
  /\ robotsResponses = <<>>

\* No confirmation request is served: the audience is empty.
VIdle ==
  /\ store = [e \in Emails |-> 0]
  /\ pc = [r \in Requests |-> "idle"]
  /\ token = [r \in Requests |-> Null]
  /\ email = [r \in Requests |-> Null]
  /\ result = [r \in Requests |-> Pending]
  /\ console = [r \in Requests |-> <<>>]
  /\ calls = [r \in Requests |-> <<>>]
  /\ heldAtGet = [r \in Requests |-> FALSE]
  /\ verifyResp = [r \in Requests |-> NoVerify]
  /\ getResp = [r \in Requests |-> NoGet]
  /\ createResp = [r \in Requests |-> NoCreate]
  /\ afterSuccess = [r \in Requests |-> {}]

\* No robots.txt request is served.
RobotsIdle ==
  /\ vercelEnv = Null
  /\ robotsResponses = <<>>

\* users.json: a list of users with distinct addresses, of a length around
\* the multiples of the batch size.
UserCounts ==
  {0, 1} \cup { k * MAX_BATCH_SIZE + d : k \in 1..MaxFullBatches,
                                         d \in {-1, 0, 1} }

UsersJson(n) == [i \in 1..n |-> [email |-> i]]

BatchStart(n) ==
  /\ users = UsersJson(n)
  /\ initialUsers = UsersJson(n)
  /\ counter = 1
  /\ bpc = "loop"
  /\ emails = <<>>
  /\ responses = <<>>
  /\ scanned = 0
  /\ sends = <<>>
  /\ returned = <<>>
  /\ logs = <<>>
  /\ unsuccessful = <<>>
  /\ bconsole = <<>>

BatchInit == \E n \in UserCounts : BatchStart(n)

\* The script is not run.
BatchIdle == BatchStart(0)

\* The handlers are independent of each other: each specification starts
\* one of them from its initial states and leaves the others at rest.
Init == VInit /\ OgInit /\ RobotsIdle /\ BatchIdle

InitOg == VIdle /\ OgInit /\ RobotsIdle /\ BatchIdle

InitRobots == VIdle /\ OgInit /\ RobotsInit /\ BatchIdle

InitBatch == VIdle /\ OgInit /\ RobotsIdle /\ BatchInit

\* ------------------------------------------------ the contact store (Resend)
\* Responses of resend.contacts.get({ email, audienceId }) against the store:
\* the contact when the audience holds it, a not_found error when it does
\* not, an error value without data when the API call fails, or an exception.
Holds(e) == e \in Emails /\ store[e] > 0

ContactsGet(e) ==
  { IF Holds(e)
    THEN [threw |-> FALSE, data |-> e, error |-> Null]
    ELSE [threw |-> FALSE, data |-> Null, error |-> "not_found"],
    [threw |-> FALSE, data |-> Null, error |-> "application_error"],
    [threw |-> TRUE, data |-> Null, error |-> Null] }

\* Responses of resend.contacts.create({ email, audienceId }): the contact is
\* added, or an error value comes back, or the call throws.
ContactsCreate(e) ==
  { IF e \in Emails
    THEN [threw |-> FALSE, created |-> TRUE, error |-> Null]
    ELSE [threw |-> FALSE, created |-> FALSE, error |-> "validation_error"],
    [threw |-> FALSE, created |-> FALSE, error |-> "application_error"],
    [threw |-> TRUE, created |-> FALSE, error |-> Null] }

\* ---------------------------------------------- the verification loader
\* if (!token)
TokenMissingNullOnly(tok) == tok = Null
TokenMissing(tok) == ~Truthy(tok)

\* if (!email)
WrongTokenNever(em) == FALSE
WrongToken(em) == ~Truthy(em)

\* if (data)
ContactExistsNever(data) == FALSE
ContactExistsAlways(data) == TRUE
ContactExists(data) == Truthy(data)

\* if (error)
CreationFailedNever(error) == FALSE
CreationFailed(error) == Truthy(error)

\* catch (error) { console.error("Error verifying token:", error);
\*                 throw "Error verifying token"; }
CatchRethrows(caught) == Throw(caught)
Catch(caught) == Throw("Error verifying token")

\* console.error("Error verifying token:", error) of the catch.
CatchLogSilent(entries) == entries
CatchLog(entries) == Append(entries, "Error verifying token:")

\* One more call of an external operation by a request.
IssueTwice(c, op, arg) == Append(Append(c, <<op, arg>>), <<op, arg>>)
Issue(c, op, arg) == Append(c, <<op, arg>>)

\* The external calls of lines 259-278: none without a token, the
\* verification for a token, and the lookup once the verification has
\* returned an email.
StartCallsLookupFirst(c, tok, v) ==
  IF TokenMissing(tok) THEN c
  ELSE Issue(Issue(c, "verify", tok), "get", v.email)
StartCalls(c, tok, v) ==
  IF TokenMissing(tok) THEN c
  ELSE IF v.threw \/ WrongToken(v.email) THEN Issue(c, "verify", tok)
  ELSE Issue(Issue(c, "verify", tok), "get", v.email)

\* Emails for which a request has already completed a successful creation.
SuccessfullyCreated ==
  { email[q] : q \in { p \in Requests :
      pc[p] = "done" /\ result[p] = redirect(ConfirmationPath) } }

\* Lines 259-278: the request arrives with a token, the token is checked and
\* verified, and the lookup is issued; the loader then awaits the lookup.
LoaderStart(r, tok, v) ==
  /\ pc[r] = "idle"
  /\ token' = [token EXCEPT ![r] = tok]
  /\ afterSuccess' = [afterSuccess EXCEPT ![r] = SuccessfullyCreated]
  /\ calls' = [calls EXCEPT ![r] = StartCalls(@, tok, v)]
  /\ IF TokenMissing(tok)
     THEN /\ result' = [result EXCEPT ![r] = Throw("No token provided")]
          /\ pc' = [pc EXCEPT ![r] = "done"]
          /\ UNCHANGED email
     ELSE IF v.threw
     THEN /\ result' = [result EXCEPT ![r] = Throw(TokenException)]
          /\ pc' = [pc EXCEPT ![r] = "done"]
          /\ UNCHANGED email
     ELSE IF WrongToken(v.email)
     THEN /\ result' = [result EXCEPT ![r] = Throw("Wrong token")]
          /\ pc' = [pc EXCEPT ![r] = "done"]
          /\ email' = [email EXCEPT ![r] = v.email]
     ELSE /\ email' = [email EXCEPT ![r] = v.email]
          /\ pc' = [pc EXCEPT ![r] = "get"]
          /\ UNCHANGED result
  /\ verifyResp' = [verifyResp EXCEPT
                      ![r] = IF TokenMissing(tok) THEN NoVerify ELSE v]
  /\ UNCHANGED <<store, console, heldAtGet, getResp, createResp>>
  /\ UNCHANGED <<ogvars, robotsvars, batchvars>>

\* Lines 275-289: the lookup answers; an existing contact ends the request
\* with the alreadySubscribed redirect, otherwise the creation is issued and
\* awaited; an exception goes to the catch of lines 295-298.
LoaderAfterGet(r, resp) ==
  /\ pc[r] = "get"
  /\ heldAtGet' = [heldAtGet EXCEPT ![r] = Holds(email[r])]
  /\ getResp' = [getResp EXCEPT ![r] = resp]
  /\ IF resp.threw
     THEN /\ console' = [console EXCEPT ![r] = CatchLog(@)]
          /\ result' = [result EXCEPT ![r] = Catch(StoreException)]
          /\ pc' = [pc EXCEPT ![r] = "done"]
          /\ UNCHANGED calls
     ELSE IF ContactExists(resp.data)
     THEN /\ result' = [result EXCEPT ![r] =
                 redirect(ConfirmationPath \o "?alreadySubscribed=true")]
          /\ pc' = [pc EXCEPT ![r] = "done"]
          /\ UNCHANGED <<calls, console>>
     ELSE /\ calls' = [calls EXCEPT ![r] = Issue(@, "create", email[r])]
          /\ pc' = [pc EXCEPT ![r] = "create"]
          /\ UNCHANGED <<result, console>>
  /\ UNCHANGED <<store, token, email, verifyResp, createResp, afterSuccess>>
  /\ UNCHANGED <<ogvars, robotsvars, batchvars>>

\* Lines 286-299: the creation answers; an error value is logged and thrown
\* inside the try, so it reaches the catch like an exception of the call; a
\* response without error leaves the try and ends with the plain redirect.
LoaderAfterCreate(r, resp) ==
  /\ pc[r] = "create"
  /\ store' = IF resp.created
              THEN [store EXCEPT ![email[r]] = @ + 1]
              ELSE store
  /\ createResp' = [createResp EXCEPT ![r] = resp]
  /\ IF resp.threw
     THEN /\ console' = [console EXCEPT ![r] = CatchLog(@)]
          /\ result' = [result EXCEPT ![r] = Catch(StoreException)]
     ELSE IF CreationFailed(resp.error)
     THEN /\ console' = [console EXCEPT
                           ![r] = CatchLog(Append(@, "Error adding contact:"))]
          /\ result' = [result EXCEPT ![r] = Catch("Error adding contact")]
     ELSE /\ result' = [result EXCEPT ![r] = redirect(ConfirmationPath)]
          /\ UNCHANGED console
  /\ pc' = [pc EXCEPT ![r] = "done"]
  /\ UNCHANGED <<token, email, calls, heldAtGet, verifyResp, getResp,
                 afterSuccess>>
  /\ UNCHANGED <<ogvars, robotsvars, batchvars>>

Start == \E r \in Requests, tok \in Tokens :
           \E v \in VerifyOutcomes(tok) : LoaderStart(r, tok, v)

AfterGet == \E r \in { q \in Requests : pc[q] = "get" } :
              \E resp \in ContactsGet(email[r]) : LoaderAfterGet(r, resp)

AfterCreate == \E r \in { q \in Requests : pc[q] = "create" } :
                 \E resp \in ContactsCreate(email[r]) :
                   LoaderAfterCreate(r, resp)

\* Requests served concurrently: any request may take its next step.
Next == Start \/ AfterGet \/ AfterCreate

Spec == Init /\ [][Next]_vars

\* Requests served one after the other: a request arrives only when no other
\* request is in flight.
NoneInFlight == \A r \in Requests : pc[r] \in {"idle", "done"}

SeqNext == (NoneInFlight /\ Start) \/ AfterGet \/ AfterCreate

SpecSeq == Init /\ [][SeqNext]_vars

\* ------------------------------------------------ the image loader (og)
\* String.prototype.trim(): the string without leading and trailing
\* whitespace.  Strings are sequences of one-character strings.
IsSpace(c) == c = " "

RECURSIVE trimStart(_)
trimStart(s) ==
  IF s # <<>> /\ IsSpace(Head(s)) THEN trimStart(Tail(s)) ELSE s

RECURSIVE trimEnd(_)
trimEnd(s) ==
  IF s # <<>> /\ IsSpace(s[Len(s)])
  THEN trimEnd(SubSeq(s, 1, Len(s) - 1))
  ELSE s

trimNothing(s) == s
trim(s) == trimEnd(trimStart(s))

\* String.prototype.slice(0, end) for end >= 0.
sliceKeepsAll(s, end) == s
slice(s, end) == SubSeq(s, 1, IF Len(s) < end THEN Len(s) ELSE end)

\* A value that may be null / undefined: searchParams.get(name).
None == [present |-> FALSE, value |-> <<>>]
Some(s) == [present |-> TRUE, value |-> s]

\* searchParams.get("title")?.trim().slice(0, 70)
titleOf(param) ==
  IF param.present THEN Some(slice(trim(param.value), TitleMax)) ELSE None

\* searchParams.get("description")?.trim().slice(0, 200)
descriptionOf(param) ==
  IF param.present THEN Some(slice(trim(param.value), DescriptionMax))
  ELSE None

\* !title, for title a string or undefined
NotOfPresent(opt) == opt.present
Not(opt) == ~opt.present \/ opt.value = <<>>

\* if (!title || !description)
MissingOnlyBoth(title, description) == Not(title) /\ Not(description)
Missing(title, description) == Not(title) \/ Not(description)

Origin == "https://example.com"

\* The error of a failed rendering (for instance malformed font data).
RenderException == "Error: Unsupported OpenType signature"

BadRequest == [status |-> 400, contentType |-> "text/plain",
               body |-> "Missing title or description"]
ServerErrorWithDetail == [status |-> 500, contentType |-> "text/plain",
                          body |-> RenderException]
ServerError == [status |-> 500, contentType |-> "text/plain",
                body |-> "Internal server error"]
ImageResponse == [status |-> 200, contentType |-> "image/png",
                  body |-> "<image>"]
NoResponse == [status |-> 0, contentType |-> "", body |-> ""]

\* catch (error) { console.error(...); return new Response("Internal server
\* error", { status: 500, ... }); }  An exception that left the loader
\* would give the runtime no Response.
CaughtEscapes(error) == [status |-> 0, contentType |-> "<exception>",
                         body |-> error]
Caught(error) == ServerError

\* Outcomes of new ImageResponse(element, { fonts }): the image is rendered;
\* or the constructor throws; or the constructor returns the response and
\* the rendering fails afterwards, while the body of the response is
\* produced (the loader returns the response without awaiting anything).
RenderOutcomes == {"rendered", "throws", "fails later"}

\* Lines 7-70: the loader has no await, so one request is one step.
OgLoader(titleParam, descriptionParam, render) ==
  /\ ogPc = "idle"
  /\ ogPc' = "done"
  /\ ogTitleParam' = titleParam
  /\ ogDescriptionParam' = descriptionParam
  /\ LET title == titleOf(titleParam)
         description == descriptionOf(descriptionParam)
     IN IF Missing(title, description)
        THEN /\ ogResponse' = BadRequest
             /\ UNCHANGED <<ogRendered, ogConsole, ogRenderError>>
        ELSE /\ ogRendered' = Append(ogRendered,
                                [origin |-> Origin, title |-> title.value,
                                 description |-> description.value])
             /\ ogRenderError' = IF render = "rendered" THEN Null
                                  ELSE RenderException
             /\ IF render = "throws"
                THEN /\ ogConsole' = Append(ogConsole,
                          <<"OG Image generation error:", RenderException>>)
                     /\ ogResponse' = Caught(RenderException)
                ELSE /\ ogResponse' = ImageResponse
                     /\ UNCHANGED ogConsole
  /\ UNCHANGED <<vvars, robotsvars, batchvars>>

OgRequest == \E t \in TitleParams, d \in DescriptionParams,
                render \in RenderOutcomes : OgLoader(t, d, render)

OgNext == OgRequest

SpecOg == InitOg /\ [][OgNext]_vars

\* --------------------------------------------- the robots.txt loader
\* An object literal: the keys of a policy, each with its list of values; a
\* key that is written again replaces the earlier value.
Put(obj, key, value) ==
  [k \in DOMAIN obj \cup {key} |-> IF k = key THEN value ELSE obj[k]]

EmptyObject == [k \in {} |-> <<>>]

\* process.env.VERCEL_ENV === "production"
isProductionDeploymentNever(env) == FALSE
isProductionDeployment(env) == env = "production"

\* Lines 48-57 of the robots.txt route: the policy handed to
\* generateRobotsTxt.
RobotsPolicy(env, origin) ==
  LET production == isProductionDeployment(env)
      o1 == Put(EmptyObject, "userAgent", <<"*">>)
      o2 == Put(o1, IF production THEN "allow" ELSE "disallow", <<"/">>)
      o3 == IF production THEN Put(o2, "disallow", <<"/api/">>) ELSE o2
  IN Put(o3, "sitemap", <<origin \o href("/sitemap.xml")>>)

\* The lines generateRobotsTxt writes for one key of a policy.
DirectiveLines(policy, key, label) ==
  IF key \in DOMAIN policy
  THEN [i \in 1..Len(policy[key]) |-> label \o ": " \o policy[key][i]]
  ELSE <<>>

\* generateRobotsTxt([policy]): the lines of the file, in the order of the
\* documented output.
generateRobotsTxt(policy) ==
  DirectiveLines(policy, "userAgent", "User-agent")
    \o DirectiveLines(policy, "allow", "Allow")
    \o DirectiveLines(policy, "disallow", "Disallow")
    \o DirectiveLines(policy, "sitemap", "Sitemap")

\* Lines 43-65: one request to /robots.txt.
RobotsLoader(origin) ==
  /\ Len(robotsResponses) < MaxRobotsRequests
  /\ robotsResponses' = Append(robotsResponses,
       [origin |-> origin,
        contentType |-> "text/plain",
        body |-> generateRobotsTxt(RobotsPolicy(vercelEnv, origin))])
  /\ UNCHANGED <<vercelEnv, vvars, ogvars, batchvars>>

RobotsRequest == \E origin \in Origins : RobotsLoader(origin)

RobotsNext == RobotsRequest

SpecRobots == InitRobots /\ [][RobotsNext]_vars

\* --------------------------------------------- the batch email script
\* Array.prototype.splice(0, deleteCount): the removed elements and what is
\* left of the array.
Min(a, b) == IF a < b THEN a ELSE b

spliceSkipsOne(list, deleteCount) ==
  [removed |-> SubSeq(list, 1, Min(deleteCount, Len(list))),
   rest |-> SubSeq(list, Min(deleteCount, Len(list)) + 2, Len(list))]
spliceOneMore(list, deleteCount) ==
  [removed |-> SubSeq(list, 1, Min(deleteCount + 1, Len(list))),
   rest |-> SubSeq(list, Min(deleteCount + 1, Len(list)) + 1, Len(list))]
splice(list, deleteCount) ==
  [removed |-> SubSeq(list, 1, Min(deleteCount, Len(list))),
   rest |-> SubSeq(list, Min(deleteCount, Len(list)) + 1, Len(list))]

\* userBatch.map((user) => ({ ... }))
EmailFor(user) ==
  [TemplateId |-> TEMPLATE_ID, From |-> "example@test.com",
   To |-> user.email, MessageStream |-> "outbound"]

\* One response of Postmark for one email of the batch.
ResponseFor(mail, code) ==
  [To |-> mail.To, ErrorCode |-> code,
   Message |-> IF code = 0 THEN "OK" ELSE "Inactive recipient"]

\* What client.sendEmailBatchWithTemplates(batch) can do: it throws, or it
\* returns one response per email, of which the first, the last, both or
\* none is unsuccessful.
FailurePatterns(n) == { {}, {1}, {n}, {1, n} }

SendOutcomes(batch) ==
  { [threw |-> TRUE, responses |-> <<>>] }
    \cup { [threw |-> FALSE,
            responses |-> [i \in 1..Len(batch) |->
               ResponseFor(batch[i], IF i \in failing THEN 406 ELSE 0)]] :
           failing \in FailurePatterns(Len(batch)) }

\* JSON.stringify(response): the keys and values of the response.
stringify(response) ==
  <<"To", response.To, "ErrorCode", response.ErrorCode,
    "Message", response.Message>>

\* if (response.ErrorCode !== 0)
IsUnsuccessfulInverted(response) == response.ErrorCode = 0
IsUnsuccessful(response) == response.ErrorCode # 0

\* console.info(`Finished batch ${counter++}`), the end of an iteration.
FinishBatch(entries) ==
  /\ bconsole' = bconsole \o entries \o <<<<"Finished batch", counter>>>>
  /\ counter' = counter + 1
  /\ bpc' = "loop"

\* Lines 230-252: while (users.length > 0): the next batch is spliced off
\* the users, mapped to emails and sent.
BeginBatch ==
  /\ bpc = "loop"
  /\ Len(users) > 0
  /\ LET userBatch == splice(users, MAX_BATCH_SIZE)
         batch == [i \in 1..Len(userBatch.removed) |->
                     EmailFor(userBatch.removed[i])]
     IN /\ users' = userBatch.rest
        /\ emails' = batch
        /\ sends' = Append(sends, batch)
  /\ bpc' = "send"
  /\ UNCHANGED <<counter, responses, scanned, returned, logs, unsuccessful,
                 initialUsers, bconsole>>
  /\ UNCHANGED <<vvars, ogvars, robotsvars>>

\* Line 230: users.length is 0, the loop and the script end.
LoopExit ==
  /\ bpc = "loop"
  /\ Len(users) = 0
  /\ bpc' = "exit"
  /\ UNCHANGED <<users, counter, emails, responses, scanned, sends, returned,
                 logs, unsuccessful, initialUsers, bconsole>>
  /\ UNCHANGED <<vvars, ogvars, robotsvars>>

\* Lines 252 and 274-277: the send answers; an exception is reported and the
\* iteration ends, responses go on to be logged.
SendReturns(outcome) ==
  /\ bpc = "send"
  /\ IF outcome.threw
     THEN /\ FinishBatch(<<<<"Error sending in batch", counter>>>>)
          /\ UNCHANGED <<responses, returned>>
     ELSE /\ responses' = outcome.responses
          /\ returned' = returned \o outcome.responses
          /\ bpc' = "log"
          /\ UNCHANGED <<counter, bconsole>>
  /\ scanned' = 0
  /\ UNCHANGED <<users, emails, sends, logs, unsuccessful, initialUsers>>
  /\ UNCHANGED <<vvars, ogvars, robotsvars>>

\* Lines 254-260: all responses are appended to logs.txt, one per line.
WriteLogs ==
  /\ bpc = "log"
  /\ logs' = logs \o [i \in 1..Len(responses) |-> stringify(responses[i])]
  /\ bpc' = "scan"
  /\ UNCHANGED <<users, counter, emails, responses, scanned, sends, returned,
                 unsuccessful, initialUsers, bconsole>>
  /\ UNCHANGED <<vvars, ogvars, robotsvars>>

\* The responses the for loop has not gone through that are unsuccessful.
UnsuccessfulAhead ==
  { i \in (scanned + 1)..Len(responses) : IsUnsuccessful(responses[i]) }

\* Lines 261-273: the for loop reaches the next unsuccessful response and
\* appends it to unsuccessful.txt.
WriteUnsuccessful ==
  /\ bpc = "scan"
  /\ UnsuccessfulAhead # {}
  /\ LET i == CHOOSE j \in UnsuccessfulAhead :
                \A k \in UnsuccessfulAhead : j <= k
     IN /\ unsuccessful' = Append(unsuccessful, stringify(responses[i]))
        /\ scanned' = i
  /\ UNCHANGED <<users, counter, bpc, emails, responses, sends, returned,
                 logs, initialUsers, bconsole>>
  /\ UNCHANGED <<vvars, ogvars, robotsvars>>

\* Lines 261-277: the for loop finds no further unsuccessful response; the
\* iteration ends.
EndBatch ==
  /\ bpc = "scan"
  /\ UnsuccessfulAhead = {}
  /\ FinishBatch(<<>>)
  /\ scanned' = Len(responses)
  /\ UNCHANGED <<users, emails, responses, sends, returned, logs,
                 unsuccessful, initialUsers>>
  /\ UNCHANGED <<vvars, ogvars, robotsvars>>

Send == \E outcome \in SendOutcomes(emails) : SendReturns(outcome)

BatchNext == BeginBatch \/ Send \/ WriteLogs \/ WriteUnsuccessful
             \/ EndBatch \/ LoopExit

SpecBatch == InitBatch /\ [][BatchNext]_vars

\* The script runs on: every awaited call (the send, the file writes) is
\* answered, so a step that is possible is eventually taken.
SpecBatchLive == InitBatch /\ [][BatchNext]_vars /\ WF_vars(BatchNext)

\* ------------------------------------------- properties of the verification
Count(r, op) == Cardinality({ i \in DOMAIN calls[r] : calls[r][i][1] = op })

CountFor(r, op, arg) ==
  Cardinality({ i \in DOMAIN calls[r] : calls[r][i] = <<op, arg>> })

Done(r) == pc[r] = "done"

\* The request's verification returned an email.
Verified(r) == Count(r, "verify") > 0 /\ ~verifyResp[r].threw
               /\ Truthy(verifyResp[r].email)

\* The request's lookup / creation has been answered.
GetAnswered(r) == Count(r, "get") > 0 /\ pc[r] # "get"
CreateAnswered(r) == Count(r, "create") > 0 /\ pc[r] = "done"

\* The creation completed and reported no error.
CreateSucceeded(r) == CreateAnswered(r) /\ ~createResp[r].threw
                      /\ ~Truthy(createResp[r].error)

AlreadySubscribed == redirect(ConfirmationPath \o "?alreadySubscribed=true")

\* C1 as stated: a finished request whose token verified to an email the
\* store did not hold at its lookup has issued exactly one creation call for
\* that email, and ends with the plain confirmation redirect when the
\* creation succeeded.
C1_Original ==
  \A r \in Requests :
    (Done(r) /\ Verified(r) /\ ~heldAtGet[r]) =>
      /\ CountFor(r, "create", email[r]) = 1
      /\ Count(r, "create") = 1
      /\ CreateSucceeded(r) => result[r] = redirect(ConfirmationPath)

\* C1 (amended): a request whose token verified to an email the store did not
\* hold at its lookup, and whose lookup did not throw, has issued exactly one
\* creation call, for that email, and ends with the plain confirmation
\* redirect (no alreadySubscribed flag) when the creation succeeded.
C1_UnseenEmailCreatedOnce ==
  \A r \in Requests :
    (Verified(r) /\ GetAnswered(r) /\ ~heldAtGet[r] /\ ~getResp[r].threw) =>
      /\ CountFor(r, "create", email[r]) = 1
      /\ Count(r, "create") = 1
      /\ CreateSucceeded(r) => result[r] = redirect(ConfirmationPath)

C1_Witness ==
  \E r \in Requests :
    /\ Done(r) /\ Verified(r) /\ ~heldAtGet[r] /\ ~getResp[r].threw
    /\ CreateSucceeded(r)
    /\ result[r] = redirect(ConfirmationPath)
    /\ store[email[r]] = 1

\* C2: a request whose lookup returned an existing contact issues no creation
\* call and ends with the redirect to the confirmation path suffixed with
\* ?alreadySubscribed=true.
C2_ExistingContactNotCreated ==
  \A r \in Requests :
    (Verified(r) /\ GetAnswered(r) /\ ~getResp[r].threw
       /\ Truthy(getResp[r].data)) =>
      /\ Count(r, "create") = 0
      /\ Done(r)
      /\ result[r] = [kind |-> "redirect",
                      value |-> "/newsletter/confirmation?alreadySubscribed=true"]

C2_Witness ==
  \E r \in Requests :
    /\ Done(r) /\ Verified(r) /\ Truthy(getResp[r].data)
    /\ result[r] = AlreadySubscribed

\* Creation calls issued for an email by all requests together.
RECURSIVE TotalCreateCalls(_, _)
TotalCreateCalls(e, n) ==
  IF n = 0 THEN 0
  ELSE CountFor(n, "create", e) + TotalCreateCalls(e, n - 1)

\* C3: whatever the interleaving of the requests, at most one creation call
\* is issued for an email across all the requests.
C3_AtMostOneCreation ==
  \A e \in Emails : TotalCreateCalls(e, NumRequests) <= 1

\* The lookup of the request was answered from the store: it neither threw
\* nor came back with an application error instead of an answer.
LookupSucceeded(r) == GetAnswered(r) /\ ~getResp[r].threw
                      /\ getResp[r].error # "application_error"

\* The request arrived after a request for the same email had completed with
\* a successful creation.
LaterConfirmation(r) == Verified(r) /\ email[r] \in afterSuccess[r]

VerifyThrew(r) == Count(r, "verify") > 0 /\ verifyResp[r].threw
GetThrew(r) == GetAnswered(r) /\ getResp[r].threw
CreateReturnedError(r) == CreateAnswered(r) /\ ~createResp[r].threw
                          /\ Truthy(createResp[r].error)

\* C5 as stated: a request whose verification threw, whose lookup threw or
\* whose creation returned an error fails with "Error verifying token".
C5_Original ==
  \A r \in Requests :
    (VerifyThrew(r) \/ GetThrew(r) \/ CreateReturnedError(r)) =>
      result[r] = Throw("Error verifying token")

\* C5 (amended): a request whose lookup threw or whose creation returned an
\* error (or threw) fails with "Error verifying token"; verifySignedToken is
\* called before the try block, so an exception of the verification reaches
\* the caller as it was thrown.
C5_StoreFailuresCaught ==
  \A r \in Requests :
    /\ (GetThrew(r) \/ CreateReturnedError(r)
          \/ (CreateAnswered(r) /\ createResp[r].threw)) =>
         result[r] = [kind |-> "throw", value |-> "Error verifying token"]
    /\ VerifyThrew(r) => result[r] = Throw(TokenException)

C5_Witness ==
  \E r, q \in Requests :
    /\ Done(r) /\ GetThrew(r)
    /\ Done(q) /\ CreateReturnedError(q)
    /\ result[r] = Throw("Error verifying token")
    /\ result[q] = Throw("Error verifying token")

\* C6: a request whose creation reported an error ends in a failure, never
\* in a redirect.
C6_CreationErrorFails ==
  \A r \in Requests :
    CreateReturnedError(r) =>
      /\ result[r].kind = "throw"
      /\ result[r] # redirect(ConfirmationPath)
      /\ result[r] # AlreadySubscribed

C6_Witness ==
  \E r \in Requests :
    Done(r) /\ CreateReturnedError(r) /\ result[r].kind = "throw"

\* C7: a request whose URL has no token parameter, or an empty one, fails
\* with "No token provided".
C7_NoTokenProvided ==
  \A r \in Requests :
    (pc[r] # "idle" /\ token[r] \in {Null, ""}) =>
      Done(r) /\ result[r] = Throw("No token provided")

C7_Witness ==
  \E r, q \in Requests :
    /\ Done(r) /\ token[r] = Null /\ result[r] = Throw("No token provided")
    /\ Done(q) /\ token[q] = "" /\ result[q] = Throw("No token provided")

\* C8: a request with a token for which the verification returned no email
\* fails with "Wrong token".
C8_WrongToken ==
  \A r \in Requests :
    (Count(r, "verify") > 0 /\ ~verifyResp[r].threw
       /\ verifyResp[r].email = Null) =>
      Done(r) /\ result[r] = Throw("Wrong token")

C8_Witness ==
  \E r \in Requests :
    /\ Done(r) /\ token[r] = "forged" /\ verifyResp[r].email = Null
    /\ result[r] = Throw("Wrong token")

\* A failure of one of the request's external operations: the verification
\* threw or was negative, the lookup threw, the creation threw or returned
\* an error.
Failed(r) ==
  \/ VerifyThrew(r)
  \/ Count(r, "verify") > 0 /\ ~Truthy(verifyResp[r].email)
  \/ GetThrew(r)
  \/ CreateAnswered(r) /\ (createResp[r].threw \/ Truthy(createResp[r].error))

\* The operation whose call failed.
FailedOp(r) ==
  IF Count(r, "verify") > 0 /\ ~Verified(r) THEN "verify"
  ELSE IF GetThrew(r) THEN "get" ELSE "create"

C10_MissingParameterIs400 ==
  (ogPc = "done" /\ (~ogTitleParam.present \/ ~ogDescriptionParam.present)) =>
    /\ ogResponse.status = 400
    /\ ogResponse.contentType = "text/plain"
    /\ ogResponse.body = "Missing title or description"
    /\ ogRendered = <<>>

C10_Witness ==
  /\ ogPc = "done"
  /\ ~ogTitleParam.present
  /\ ogDescriptionParam.present /\ trim(ogDescriptionParam.value) # <<>>
  /\ ogResponse.status = 400
  /\ ogRendered = <<>>

\* The title and the description the renderer received.
RenderedTitle == ogRendered[1].title
RenderedDescription == ogRendered[1].description

\* C11 as stated: a title parameter longer than 70 characters reaches the
\* renderer with exactly 70 characters, a description parameter longer than
\* 200 characters with exactly 200.
C11_Original ==
  ogRendered # <<>> =>
    /\ Len(ogTitleParam.value) > 70 => Len(RenderedTitle) = 70
    /\ Len(ogDescriptionParam.value) > 200 => Len(RenderedDescription) = 200

\* The blanks in front of a string.
RECURSIVE LeadingBlanks(_)
LeadingBlanks(s) ==
  IF s # <<>> /\ s[1] = " " THEN 1 + LeadingBlanks(Tail(s)) ELSE 0

RECURSIVE TrailingBlanks(_)
TrailingBlanks(s) ==
  IF s # <<>> /\ s[Len(s)] = " "
  THEN 1 + TrailingBlanks(SubSeq(s, 1, Len(s) - 1))
  ELSE 0

\* The length of a string without its leading and trailing blanks.
TrimmedLen(s) ==
  IF LeadingBlanks(s) = Len(s) THEN 0
  ELSE Len(s) - LeadingBlanks(s) - TrailingBlanks(s)

\* C11 (amended): the parameters are trimmed before they are cut, so a title
\* whose trimmed value is longer than 70 characters reaches the renderer as
\* the first 70 characters of the trimmed value, and a description whose
\* trimmed value is longer than 200 characters as its first 200.
C11_TruncatedAfterTrim ==
  ogRendered # <<>> =>
    /\ TrimmedLen(ogTitleParam.value) > 70 =>
         /\ Len(RenderedTitle) = 70
         /\ \A i \in 1..70 :
              RenderedTitle[i] =
                ogTitleParam.value[LeadingBlanks(ogTitleParam.value) + i]
    /\ TrimmedLen(ogDescriptionParam.value) > 200 =>
         /\ Len(RenderedDescription) = 200
         /\ \A i \in 1..200 :
              RenderedDescription[i] =
                ogDescriptionParam.value[
                  LeadingBlanks(ogDescriptionParam.value) + i]

C11_Witness ==
  /\ ogRendered # <<>>
  /\ Len(ogTitleParam.value) > 71 /\ TrimmedLen(ogTitleParam.value) = 71
  /\ TrimmedLen(ogDescriptionParam.value) = 201
  /\ Len(RenderedTitle) = 70 /\ Len(RenderedDescription) = 200

\* The parameter has at least one character that is not a blank.
NonBlank(param) == param.present /\ TrimmedLen(param.value) > 0

\* C12 as stated: a request with both parameters present whose rendering did
\* not fail gets the image response.
C12_Original ==
  (ogPc = "done" /\ ogTitleParam.present /\ ogDescriptionParam.present
     /\ ogRenderError = Null) =>
    ogResponse = ImageResponse

\* C12 (amended): a request whose title and description parameters are both
\* present and both have a character other than whitespace, and whose
\* rendering did not fail, gets the image response, not a 400.
C12_PresentNonBlankIsImage ==
  (ogPc = "done" /\ NonBlank(ogTitleParam) /\ NonBlank(ogDescriptionParam)
     /\ ogRenderError = Null) =>
    /\ ogResponse.status = 200
    /\ ogResponse.contentType = "image/png"
    /\ Len(ogRendered) = 1

C12_Witness ==
  /\ ogPc = "done"
  /\ NonBlank(ogTitleParam) /\ NonBlank(ogDescriptionParam)
  /\ LeadingBlanks(ogTitleParam.value) > 0
  /\ ogRenderError = Null
  /\ ogResponse = ImageResponse
  /\ Len(ogRendered) = 1

\* C13: a rendering that failed gives status 500 with the fixed plain-text
\* body "Internal server error"; the error is logged and is not in the body.
C13_RenderFailureIs500 ==
  (ogPc = "done" /\ ogRenderError # Null) =>
    /\ ogResponse.status = 500
    /\ ogResponse.contentType = "text/plain"
    /\ ogResponse.body = "Internal server error"
    /\ ogResponse.body # ogRenderError
    /\ ogConsole = <<<<"OG Image generation error:", ogRenderError>>>>

\* ------------------------------------------- properties of the robots.txt
\* C14: for user agent *, the robots.txt of a production deployment has the
\* rules Allow: / and Disallow: /api/, and the robots.txt of every other
\* environment has Disallow: / as its only rule, with no Allow rule.
C14_RobotsRulesByEnvironment ==
  \A i \in DOMAIN robotsResponses :
    LET resp == robotsResponses[i]
        sitemap == "Sitemap: " \o resp.origin \o "/sitemap.xml"
    IN IF vercelEnv = "production"
       THEN resp.body =
              <<"User-agent: *", "Allow: /", "Disallow: /api/", sitemap>>
       ELSE resp.body = <<"User-agent: *", "Disallow: /", sitemap>>

C14_Witness ==
  /\ Len(robotsResponses) = 2
  /\ vercelEnv = "production"
  /\ robotsResponses[1].origin # robotsResponses[2].origin
  /\ robotsResponses[1].body[2] = "Allow: /"
  /\ robotsResponses[1].body[3] = "Disallow: /api/"
  /\ robotsResponses[2].body[4] = "Sitemap: https://yourdomain.com/sitemap.xml"

\* ---------------------------------------- properties of the batch script
\* C15: every call of sendEmailBatchWithTemplates carries at least 1 and at
\* most 500 emails, whatever the number of users.
C15_BatchSizeWithinLimit ==
  \A i \in DOMAIN sends : Len(sends[i]) >= 1 /\ Len(sends[i]) <= 500

C15_Witness ==
  /\ Len(initialUsers) = 1001
  /\ Len(sends) = 3
  /\ Len(sends[1]) = 500 /\ Len(sends[2]) = 500 /\ Len(sends[3]) = 1

\* The entries of a file.
Entries(file) == { file[i] : i \in DOMAIN file }

\* The line of a file records the response.
Records(line, response) ==
  /\ line[2] = response.To
  /\ line[4] = response.ErrorCode
  /\ line[6] = response.Message

\* The returned responses whose ErrorCode is not 0.
Failures == SelectSeq(returned, LAMBDA response : response.ErrorCode # 0)

Ops(r) == [i \in DOMAIN calls[r] |-> calls[r][i][1]]

OpsInOrder == <<"verify", "get", "create">>

\* C17: a request calls the verification, then the lookup, then the
\* creation; the lookup only after the verification returned an email, and
\* for that email; the creation only after its own lookup was answered
\* without a contact, and for that email.
C17_VerifyThenGetThenCreate ==
  \A r \in Requests :
    /\ Len(calls[r]) <= 3
    /\ \A i \in DOMAIN calls[r] : Ops(r)[i] = OpsInOrder[i]
    /\ Len(calls[r]) >= 2 =>
         /\ ~verifyResp[r].threw
         /\ verifyResp[r].email \in Emails
         /\ calls[r][2][2] = verifyResp[r].email
    /\ Len(calls[r]) >= 3 =>
         /\ getResp[r] # NoGet
         /\ ~getResp[r].threw
         /\ getResp[r].data = Null
         /\ calls[r][3][2] = verifyResp[r].email

C17_Witness ==
  \E r \in Requests :
    /\ Ops(r) = <<"verify", "get", "create">>
    /\ getResp[r].error = "not_found"
    /\ pc[r] = "create"

\* C18: a lookup that throws and a creation that returns an error end their
\* requests with the same failure value, and "Error adding contact" never
\* is the value that reaches the caller.
C18_StoreFailuresIndistinguishable ==
  /\ \A r \in Requests : result[r].value # "Error adding contact"
  /\ \A r, q \in Requests :
       (GetThrew(r) /\ CreateReturnedError(q)) =>
         /\ result[r].kind = "throw"
         /\ result[q] = result[r]

C18_Witness ==
  \E r, q \in Requests :
    /\ GetThrew(r) /\ CreateReturnedError(q)
    /\ result[q] = result[r]
    /\ console[q] = <<"Error adding contact:", "Error verifying token:">>

\* C19: a request that ended with "Error verifying token" has written to
\* the diagnostic log, the entry of the catch being its last entry.
C19_FailureIsLogged ==
  \A r \in Requests :
    result[r] = Throw("Error verifying token") =>
      /\ Len(console[r]) >= 1
      /\ console[r][Len(console[r])] = "Error verifying token:"

C19_Witness ==
  \E r \in Requests :
    /\ GetThrew(r)
    /\ result[r] = Throw("Error verifying token")
    /\ console[r] = <<"Error verifying token:">>

\* The failures of a request that is rejected before the try block.
Rejections == {Throw("No token provided"), Throw("Wrong token")}

\* C20: the step that rejects a request with "No token provided" or "Wrong
\* token" leaves the contact store as it is, and the request has called
\* neither the lookup nor the creation.
C20_RejectionTouchesNoStore ==
  [][\A r \in Requests :
       result'[r] \in Rejections =>
         /\ \A i \in DOMAIN calls'[r] : calls'[r][i][1] \notin {"get", "create"}
         /\ result[r] = Pending => store' = store]_vars

C20_Witness ==
  \E r, q \in Requests :
    /\ result[r] = Throw("Wrong token") /\ Ops(r) = <<"verify">>
    /\ result[q] = Throw("No token provided") /\ calls[q] = <<>>

\* The lookup of the request completed without throwing and brought no data.
LookupWithoutData(r) == GetAnswered(r) /\ ~getResp[r].threw
                        /\ ~Truthy(getResp[r].data)

\* C21: a request whose lookup completed without throwing and returned no
\* data, be it with a not_found error or with any other error value, has
\* issued one creation call for its email and is not answered as already
\* subscribed.
C21_NoDataMeansNotFound ==
  \A r \in Requests :
    LookupWithoutData(r) =>
      /\ Len(calls[r]) = 3
      /\ calls[r][3] = <<"create", email[r]>>
      /\ result[r] # AlreadySubscribed

C21_Witness ==
  \E r \in Requests :
    /\ LookupWithoutData(r)
    /\ getResp[r].error = "application_error"
    /\ heldAtGet[r]
    /\ CreateSucceeded(r)
    /\ store[email[r]] = 2

\* ----------------------------------------- further properties of the image
\* The parameter is given and is empty or has blanks only.
Blank(param) == param.present /\ TrimmedLen(param.value) = 0

\* C22: every title the renderer received has between 1 and 70 characters
\* and every description between 1 and 200; a request with a title or a
\* description that is empty or all whitespace gets status 400 and the
\* renderer is not invoked.
C22_RendererInputsWithinBounds ==
  /\ \A i \in DOMAIN ogRendered :
       /\ Len(ogRendered[i].title) >= 1 /\ Len(ogRendered[i].title) <= 70
       /\ Len(ogRendered[i].description) >= 1
       /\ Len(ogRendered[i].description) <= 200
  /\ (ogPc = "done" /\ (Blank(ogTitleParam) \/ Blank(ogDescriptionParam))) =>
       /\ ogRendered = <<>>
       /\ ogResponse.status = 400

C22_Witness ==
  /\ ogPc = "done"
  /\ Len(ogRendered) = 1
  /\ Len(ogTitleParam.value) > 70 /\ Len(RenderedTitle) = 70
  /\ LeadingBlanks(ogDescriptionParam.value) > 0
  /\ TrailingBlanks(ogDescriptionParam.value) > 0
  /\ Len(RenderedDescription) = 1

\* C23: every image request ends with a Response, which is the 400
\* plain-text response, the 500 plain-text response or the image response;
\* an exception thrown while the handler runs ends in the 500 response and
\* does not leave the handler.
C23_AlwaysAResponse ==
  ogPc = "done" =>
    /\ ogResponse \in {BadRequest, ServerError, ImageResponse}
    /\ ogResponse.contentType # "<exception>"
    /\ ogResponse.status \in {400, 500} =>
         ogResponse.contentType = "text/plain"
    /\ ogConsole # <<>> => ogResponse = ServerError

C23_Witness ==
  /\ ogPc = "done"
  /\ Len(ogRendered) = 1
  /\ ogRenderError = RenderException
  /\ ogConsole = <<<<"OG Image generation error:", RenderException>>>>
  /\ ogResponse.status = 500
  /\ ogResponse.contentType = "text/plain"

\* ------------------------------- further properties of the batch script
\* The addresses of a list of users, and the recipients of a batch.
Addresses(list) == [i \in DOMAIN list |-> list[i].email]
Recipients(batch) == [i \in DOMAIN batch |-> batch[i].To]

\* The recipients of the first n send calls, in the order of the calls.
RECURSIVE SentUpTo(_)
SentUpTo(n) ==
  IF n = 0 THEN <<>> ELSE SentUpTo(n - 1) \o Recipients(sends[n])

Sent == SentUpTo(Len(sends))

\* C24: the recipients of the send calls, in the order of the calls, followed
\* by the users still in the list, are the users of the initial list in their
\* order (so no user is in two send calls and none is skipped); when the loop
\* has exited the users list is empty and every initial user has been sent.
C24_EveryUserInOneBatch ==
  LET sent == Sent
  IN /\ sent \o Addresses(users) = Addresses(initialUsers)
     /\ Cardinality({ sent[i] : i \in DOMAIN sent }) = Len(sent)
     /\ bpc = "exit" =>
          /\ users = <<>>
          /\ sent = Addresses(initialUsers)

C24_Witness ==
  /\ bpc = "exit"
  /\ users = <<>>
  /\ Len(initialUsers) = 501
  /\ Len(sends) = 2
  /\ sends[1][500].To = initialUsers[500].email
  /\ sends[2][1].To = initialUsers[501].email
  /\ \E i \in DOMAIN bconsole : bconsole[i] = <<"Error sending in batch", 1>>

\* The smallest number of batches of at most d that hold n users.
CeilDiv(n, d) == (n + d - 1) \div d

\* The iterations that have started and that have ended.
Started == Len(sends)
Ended == IF bpc \in {"loop", "exit"} THEN Started ELSE Started - 1

\* The "Finished batch" entries of the console, in their order.
Finished == SelectSeq(bconsole, LAMBDA entry : entry[1] = "Finished batch")

\* C25: the loop reaches its exit for every list of users, whatever the
\* sends do; every iteration takes between 1 and 500 users off the list;
\* the counter is 1 plus the number of iterations that have ended, each of
\* which reported its own number; and at the exit the loop has run
\* ceil(n / 500) iterations for the n users of the initial list.
C25_LoopTerminates ==
  /\ <>(bpc = "exit")
  /\ [](/\ counter = 1 + Ended
        /\ Finished = [i \in 1..Ended |-> <<"Finished batch", i>>]
        /\ Len(users) + 500 * Started >= Len(initialUsers)
        /\ bpc = "exit" =>
             /\ Started = CeilDiv(Len(initialUsers), 500)
             /\ counter = 1 + CeilDiv(Len(initialUsers), 500))
  /\ [][/\ Len(sends') > Len(sends) =>
             /\ Len(sends') = Len(sends) + 1
             /\ Len(users') < Len(users)
        /\ counter' # counter => counter' = counter + 1]_vars

C25_Witness ==
  /\ bpc = "exit"
  /\ Len(initialUsers) = 999
  /\ Started = 2
  /\ counter = 3
  /\ bconsole[Len(bconsole) - 1] = <<"Error sending in batch", 2>>
  /\ bconsole[Len(bconsole)] = <<"Finished batch", 2>>

====
